---- MODULE Spec2Model ----
(***************************************************************************)
(* A model of app.py (AI Finance Advisor): the CSV resource loader, the    *)
(* top-N query, the allocation rules of investment_advice, the monthly     *)
(* recurrence of compound_with_stepup and the script that ties them        *)
(* together (module-level load, tab 1 "Generate My Investment Plan").      *)
(*                                                                         *)
(* Units.  Money is held in paise (1/100 rupee), so round(x, 2) is a       *)
(* rounding to a whole number.  Ratios are held in hundredths (0.45 is     *)
(* 45).  CAGR values are held in tenths of a percent (12.5 is 125).        *)
(* Arithmetic is exact: a quotient is a pair [num, den] in lowest terms.   *)
(* Python values that may be None are [tag, v] records.                    *)
(***************************************************************************)
EXTENDS Integers, Sequences, FiniteSets, TLC

VARIABLES
    source,        \* condition of the file at csv_path: "ok", "missing", "unreadable"
    csv_rows,      \* the data rows of the file, each a sequence of field texts
    resources,     \* the module-level list `resources`
    pc,            \* position of the script: "start", "loaded", "ready", "crashed"
    exception,     \* the uncaught exception that ended the script, or "none"
    errors,        \* the messages shown with st.error, in order
    query,         \* arguments of the last direct get_top_items call
    top_items,     \* what that call returned
    fp_tie_up,     \* per bucket: whether round() lands above an exact decimal tie
    plan,          \* what the tab 1 button handler computed and rendered
    plan2,         \* the same for a second press that changes unused inputs only
    advice,        \* an investment_advice call on its own: arguments, result, locals
    cw             \* locals of a compound_with_stepup call run month by month

vars == <<source, csv_rows, resources, pc, exception, errors, query, top_items,
          fp_tie_up, plan, plan2, advice, cw>>

(***************************************************************************)
(* Python values                                                           *)
(***************************************************************************)
None == [tag |-> "None", v |-> 0]
Float(x) == [tag |-> "float", v |-> x]
Str(s) == [tag |-> "str", v |-> s]
IsNone(x) == x.tag = "None"

\* Truth value of an optional float or text: None, 0.0 and "" are false.
Truthy(x) ==
    CASE x.tag = "None"  -> FALSE
      [] x.tag = "float" -> x.v # 0
      [] OTHER           -> x.v # ""

\* str.strip() on the texts that occur in the model.
Strip(s) ==
    CASE s = " stock " -> "stock"
      [] OTHER         -> s

\* str.lower() on the texts that occur in the model.
Lower(s) ==
    CASE s = "Stock"        -> "stock"
      [] s = "STOCK"        -> "stock"
      [] s = "Gold"         -> "gold"
      [] s = "Mutual Fund"  -> "mutual fund"
      [] s = "Insurance"    -> "insurance"
      [] s = "Other"        -> "other"
      [] s = "High"         -> "high"
      [] s = "Moderate"     -> "moderate"
      [] s = "Low"          -> "low"
      [] s = "Job"          -> "job"
      [] s = "Business"     -> "business"
      [] s = "Freelancer"   -> "freelancer"
      [] s = "Student"      -> "student"
      [] s = "Beginner"     -> "beginner"
      [] s = "Intermediate" -> "intermediate"
      [] s = "Expert"       -> "expert"
      [] OTHER              -> s

\* float(s): the value in tenths of a percent, or ValueError.  float()
\* accepts surrounding blanks and a sign; it rejects other text.
PyFloat(s) ==
    CASE s = "12.5" -> [ok |-> TRUE, v |-> 125]
      [] s = "7"    -> [ok |-> TRUE, v |-> 70]
      [] s = "0"    -> [ok |-> TRUE, v |-> 0]
      [] s = "-3"   -> [ok |-> TRUE, v |-> -30]
      [] OTHER      -> [ok |-> FALSE, v |-> 0]

(***************************************************************************)
(* load_resources                                                          *)
(***************************************************************************)
fieldnames == <<"Type", "Name", "CAGR_10Y_%">>

FieldIndex(key) == CHOOSE i \in 1..Len(fieldnames) : fieldnames[i] = key

\* row.get(key, "") on a csv.DictReader row: every header key is present;
\* a field the line does not have holds the reader's restval, None.
RowGet(raw, key) ==
    IF FieldIndex(key) <= Len(raw) THEN Str(raw[FieldIndex(key)]) ELSE None

\* Lines 17-20: the CAGR of one row.
ParseCagr(raw) ==
    LET field == RowGet(raw, "CAGR_10Y_%")
    IN  IF Truthy(field)
          THEN IF PyFloat(field.v).ok THEN Float(PyFloat(field.v).v) ELSE None
          ELSE None

\* Lines 21-25: .strip() is called on whatever row.get returned; on None it
\* raises AttributeError, which no handler of load_resources catches.
RowRaises(raw) == IsNone(RowGet(raw, "Type")) \/ IsNone(RowGet(raw, "Name"))

RowRecord(raw) ==
    [type     |-> Strip(RowGet(raw, "Type").v),
     name     |-> Strip(RowGet(raw, "Name").v),
     cagr_10y |-> ParseCagr(raw)]

RECURSIVE ReadRows(_, _)
\* Lines 16-25: the loop over the reader, `acc` being `resources` so far.
ReadRows(rows, acc) ==
    IF rows = <<>> THEN [exc |-> "none", resources |-> acc]
    ELSE IF RowRaises(Head(rows)) THEN [exc |-> "AttributeError", resources |-> acc]
    ELSE ReadRows(Tail(rows), Append(acc, RowRecord(Head(rows))))

\* load_resources(csv_path): what it returns or raises, and what it reports.
\* open() raises FileNotFoundError for a missing file (caught, line 26) and
\* PermissionError for an unreadable one (not caught).
load_resources(src, rows) ==
    CASE src = "missing" ->
           [exc |-> "none", resources |-> <<>>,
            errors |-> <<"CSV file not found. Please check the path.">>]
      [] src = "unreadable" ->
           [exc |-> "PermissionError", resources |-> <<>>, errors |-> <<>>]
      [] OTHER ->
           [exc |-> ReadRows(rows, <<>>).exc,
            resources |-> ReadRows(rows, <<>>).resources,
            errors |-> <<>>]

\* Line 100: pd.read_csv(csv_path) opens the same path again, outside any try.
read_csv(src) ==
    CASE src = "missing"    -> "FileNotFoundError"
      [] src = "unreadable" -> "PermissionError"
      [] OTHER              -> "none"

(***************************************************************************)
(* get_top_items                                                           *)
(***************************************************************************)
RECURSIVE SelectType(_, _)
\* Line 34: [r for r in resources if r["type"].lower() == cat]
SelectType(rs, cat) ==
    IF rs = <<>> THEN <<>>
    ELSE IF Lower(Head(rs).type) = cat
           THEN <<Head(rs)>> \o SelectType(Tail(rs), cat)
           ELSE SelectType(Tail(rs), cat)

SortKeyAscending(x) ==
    <<IF IsNone(x.cagr_10y) THEN 1 ELSE 0,
      IF Truthy(x.cagr_10y) THEN x.cagr_10y.v ELSE 0>>

\* Line 35: key=lambda x: (x["cagr_10y"] is None, -x["cagr_10y"] if x["cagr_10y"] else 0)
SortKey(x) ==
    <<IF IsNone(x.cagr_10y) THEN 1 ELSE 0,
      IF Truthy(x.cagr_10y) THEN 0 - x.cagr_10y.v ELSE 0>>

\* Tuple comparison of two keys (False < True).
KeyLess(a, b) == a[1] < b[1] \/ (a[1] = b[1] /\ a[2] < b[2])

RECURSIVE InsertSorted(_, _)
\* x placed after every element whose key is not greater: a stable insert.
InsertSorted(sorted, x) ==
    IF sorted = <<>> THEN <<x>>
    ELSE IF KeyLess(SortKey(x), SortKey(Head(sorted)))
           THEN <<x>> \o sorted
           ELSE <<Head(sorted)>> \o InsertSorted(Tail(sorted), x)

RECURSIVE ListSort(_)
\* list.sort(key=...): stable, ascending in the key.
ListSort(s) ==
    IF s = <<>> THEN <<>>
    ELSE InsertSorted(ListSort(SubSeq(s, 1, Len(s) - 1)), s[Len(s)])

\* filtered[:top_n] for top_n >= 0.
Slice(s, n) == SubSeq(s, 1, IF n < Len(s) THEN n ELSE Len(s))

SortReceiverResources == "resources"

\* Line 35 sorts the list named `filtered`, a new list built on line 34.
SortReceiver == "filtered"

\* get_top_items(resources, category, top_n): the two lists it can reach
\* after the call, and the list it returns.
get_top_items(rs, category, top_n) ==
    LET cat    == Lower(Strip(category))
        built  == [resources |-> rs, filtered |-> SelectType(rs, cat)]
        sorted == [built EXCEPT ![SortReceiver] = ListSort(built[SortReceiver])]
    IN  [resources |-> sorted.resources, ret |-> Slice(sorted.filtered, top_n)]

(***************************************************************************)
(* Exact quotients                                                         *)
(***************************************************************************)
RECURSIVE GCD(_, _)
GCD(a, b) == IF b = 0 THEN a ELSE GCD(b, a % b)

Abs(n) == IF n < 0 THEN 0 - n ELSE n

\* n / d in lowest terms with a positive denominator (d # 0).
Rat(n, d) ==
    LET g == GCD(Abs(n), Abs(d))
        s == IF d < 0 THEN 0 - 1 ELSE 1
    IN  [num |-> (s * n) \div g, den |-> (s * d) \div g]

RatAdd(a, b) == Rat(a.num * b.den + b.num * a.den, a.den * b.den)
RatMul(a, b) == Rat(a.num * b.num, a.den * b.den)

RoundUnits(n, d, up) ==
    LET q == n \div (d * 100)
        r == n % (d * 100)
    IN  100 * (IF 2 * r < d * 100 THEN q ELSE q + 1)

\* round(n / d, 2) with n / d in rupees times 100, that is round to a whole
\* number of paise (d > 0).  Off a tie the nearest whole number; on an exact
\* decimal tie the binary value of the product lies on one side of it, which
\* `up` names.
Round2(n, d, up) ==
    LET q == n \div d
        r == n % d
    IN  CASE 2 * r < d -> q
          [] 2 * r > d -> q + 1
          [] OTHER     -> IF up THEN q + 1 ELSE q

(***************************************************************************)
(* investment_advice                                                       *)
(***************************************************************************)
\* Keys of the ratio dict in insertion order (lines 49, 51, 53).
Buckets == <<"Stocks", "Mutual Funds", "Gold", "Insurance", "Emergency Fund">>

BucketSet == {Buckets[i] : i \in 1..Len(Buckets)}

RECURSIVE SumOver(_, _)
\* sum(d[k] for k in keys)
SumOver(d, keys) ==
    IF keys = {} THEN 0
    ELSE LET k == CHOOSE x \in keys : TRUE
         IN  d[k] + SumOver(d, keys \ {k})

\* sum(ratio.values())
SumValues(d) == SumOver(d, DOMAIN d)

InsufficientSavingsStrict(savings) == savings < 0

\* Line 44: if savings <= 0
InsufficientSavings(savings) == savings <= 0

BaseRatioLowStocks(risk_level) ==
    [b \in BucketSet |->
        CASE b = "Stocks" -> 10 [] b = "Mutual Funds" -> 35 [] b = "Gold" -> 10
          [] b = "Insurance" -> 20 [] OTHER -> 25]

\* Lines 48-53: the base ratio table.
BaseRatio(risk_level) ==
    CASE Lower(risk_level) = "high" ->
           [b \in BucketSet |->
               CASE b = "Stocks" -> 45 [] b = "Mutual Funds" -> 30 [] b = "Gold" -> 10
                 [] b = "Insurance" -> 5 [] OTHER -> 10]
      [] Lower(risk_level) = "moderate" ->
           [b \in BucketSet |->
               CASE b = "Stocks" -> 30 [] b = "Mutual Funds" -> 30 [] b = "Gold" -> 10
                 [] b = "Insurance" -> 10 [] OTHER -> 20]
      [] OTHER ->
           [b \in BucketSet |->
               CASE b = "Stocks" -> 20 [] b = "Mutual Funds" -> 25 [] b = "Gold" -> 10
                 [] b = "Insurance" -> 20 [] OTHER -> 25]

\* Lines 56-59.
AgeAdjust(ratio, p) ==
    IF p.age > 50 \/ p.dependents > 3
      THEN [ratio EXCEPT !["Stocks"] = @ - 10,
                         !["Insurance"] = @ + 5,
                         !["Emergency Fund"] = @ + 5]
      ELSE ratio

OccupationAdjustOneSided(ratio, p) ==
    IF Lower(p.occupation) \in {"business", "freelancer"}
      THEN [ratio EXCEPT !["Emergency Fund"] = @ + 5]
      ELSE ratio

\* Lines 60-62.
OccupationAdjust(ratio, p) ==
    IF Lower(p.occupation) \in {"business", "freelancer"}
      THEN [ratio EXCEPT !["Emergency Fund"] = @ + 5,
                         !["Mutual Funds"] = @ - 5]
      ELSE ratio

\* Lines 63-65.
KnowledgeAdjust(ratio, p) ==
    IF Lower(p.knowledge) = "beginner"
      THEN [ratio EXCEPT !["Stocks"] = @ - 5,
                         !["Mutual Funds"] = @ + 5]
      ELSE ratio

\* Lines 48-65: the ratio dict as it stands before line 68.
AdjustedRatio(p) ==
    KnowledgeAdjust(OccupationAdjust(AgeAdjust(BaseRatio(p.risk_level), p), p), p)

\* Lines 68-69: every ratio divided by the sum of the five.
NormalizedRatio(ratio) ==
    [k \in DOMAIN ratio |-> Rat(ratio[k], SumValues(ratio))]

\* Line 70: round(v * savings, 2) per bucket, v being the quotient of line 69.
Allocations(ratio, savings, tie) ==
    [k \in DOMAIN ratio |-> Round2(ratio[k].num * savings, ratio[k].den, tie[k])]

\* investment_advice(...): the returned dict and the locals it went through.
investment_advice(p, tie) ==
    LET savings == p.income - p.expenses - p.debt
        raw     == AdjustedRatio(p)
    IN  IF InsufficientSavings(savings)
          THEN [ret |-> [error |-> "Your savings after expenses and debts are insufficient for investment!"],
                locals |-> [savings |-> savings]]
          ELSE [ret |-> Allocations(NormalizedRatio(raw), savings, tie),
                locals |-> [savings     |-> savings,
                            adjusted    |-> raw,
                            total_ratio |-> SumValues(raw),
                            ratio       |-> NormalizedRatio(raw)]]

(***************************************************************************)
(* compound_with_stepup                                                    *)
(***************************************************************************)
MonthsPerYear == 12

StepsAtYearStart(month) == month % MonthsPerYear = 0

\* Line 84: if (month + 1) % 12 == 0
StepsNow(month) == (month + 1) % MonthsPerYear = 0

\* Lines 78-80: the locals before the loop.  `total` is kept exactly, as the
\* list of its addends: after m months it is the sum over i of
\* total[i] * (1 + r)^(m + 1 - i), so that total * (1 + r) + c is the list
\* with c appended.
CompoundEnter(principal, rate, years, monthly_addition, step_up_rate) ==
    [r                  |-> Rat(rate.num, rate.den * MonthsPerYear),
     months             |-> years * MonthsPerYear,
     step_up_rate       |-> step_up_rate,
     total              |-> <<Rat(principal, 1)>>,
     monthly_investment |-> Rat(monthly_addition, 1),
     month              |-> 0]

\* Lines 83-85: one pass of the loop body for range value `month`.
CompoundBody(c) ==
    [c EXCEPT
        !.total = Append(@, c.monthly_investment),
        !.monthly_investment =
            IF StepsNow(c.month) THEN RatMul(@, RatAdd(Rat(1, 1), c.step_up_rate)) ELSE @,
        !.month = @ + 1]

RECURSIVE CompoundLoop(_)
\* Line 82: for month in range(int(years * 12))
CompoundLoop(c) == IF c.month >= c.months THEN c ELSE CompoundLoop(CompoundBody(c))

\* Line 86: round(total, 2), named by the exact total it rounds.
CompoundReturn(c) == [round2_of |-> c.total, r |-> c.r]

compound_with_stepup(principal, rate, years, monthly_addition, step_up_rate) ==
    CompoundReturn(CompoundLoop(
        CompoundEnter(principal, rate, years, monthly_addition, step_up_rate)))

(***************************************************************************)
(* Tab 1: the "Generate My Investment Plan" button handler                 *)
(***************************************************************************)
\* Line 31: top_n: int = 3
DefaultTopN == 3

\* Line 145, in percent.
returns_rate(k) ==
    CASE k = "Stocks" -> 15 [] k = "Mutual Funds" -> 13 [] k = "Gold" -> 9
      [] k = "Insurance" -> 5 [] OTHER -> 3

\* Line 160.
cat_map(k) ==
    CASE k = "Stocks" -> "Stock" [] k = "Mutual Funds" -> "Mutual Fund"
      [] k = "Gold" -> "Gold" [] k = "Insurance" -> "Insurance" [] OTHER -> "Other"

PrincipalFromExistingSavings(existing_savings) == existing_savings

\* Line 150: the principal passed to compound_with_stepup is the literal 0;
\* existing_savings (line 129) is read from the page and used nowhere.
PlanPrincipal(existing_savings) == 0

\* Lines 149-151 for the bucket k.
Projection(p, monthly_amt, k) ==
    compound_with_stepup(PlanPrincipal(p.existing_savings), Rat(returns_rate(k), 100),
                         p.years, monthly_amt, Rat(p.step_up, 100))

RECURSIVE SuggestLoop(_, _, _)
\* Lines 159-167: one get_top_items call per key of the plan, in key order;
\* `rs` is the list `resources` as the calls leave it.
SuggestLoop(keys, rs, acc) ==
    IF keys = <<>> THEN [resources |-> rs, suggestions |-> acc]
    ELSE LET call == get_top_items(rs, cat_map(Head(keys)), DefaultTopN)
         IN  SuggestLoop(Tail(keys), call.resources,
                         Append(acc, [category |-> Head(keys), top_items |-> call.ret]))

NoPlan == [rendered |-> {}]

\* Lines 135-167: what the handler computes and renders for the inputs p.
\* total_future_value is kept as the list of its addends.
PlanHandler(p, rs, tie) ==
    LET adv  == investment_advice(p, tie)
        sug  == SuggestLoop(Buckets, rs, <<>>)
        proj == [i \in 1..Len(Buckets) |->
                    Projection(p, adv.ret[Buckets[i]], Buckets[i])]
    IN  IF "error" \in DOMAIN adv.ret
          THEN [resources |-> rs,
                errors |-> <<adv.ret.error>>,
                plan |-> [rendered |-> {"error"}, request |-> p, advice |-> adv,
                          chart |-> <<>>, projection |-> <<>>,
                          total_future_value |-> <<>>, suggestions |-> <<>>]]
          ELSE [resources |-> sug.resources,
                errors |-> <<>>,
                plan |-> [rendered |-> {"savings", "chart", "projection", "total",
                                        "insights", "suggestions"},
                          request |-> p, advice |-> adv,
                          chart |-> adv.ret,
                          projection |->
                              [i \in 1..Len(Buckets) |->
                                  [bucket |-> Buckets[i], fv |-> proj[i]]],
                          total_future_value |-> proj,
                          suggestions |-> sug.suggestions]]

(***************************************************************************)
(* Bounds and input sets                                                   *)
(***************************************************************************)
MaxRows == 3
MaxN == 3
MaxYears == 2

SeqsUpTo(S, n) == UNION {[1..k -> S] : k \in 0..n}

\* Data rows of the source table: fields in header order Type, Name,
\* CAGR_10Y_%; a short row is a line with fewer fields than the header.
CatalogRows ==
    {<<"Stock", "a", "12.5">>, <<" stock ", "b", "0">>, <<"STOCK", "c", "-3">>,
     <<"Stock", "d", "">>, <<"Gold", "e", "n/a">>, <<"Stock", "f">>, <<"Stock">>}

Sources == {"ok", "missing", "unreadable"}

Categories == {"STOCK", "Gold", "Other"}

TiesDown == [b \in BucketSet |-> FALSE]

Occupations == {"Job", "Business", "Freelancer", "Student"}
Knowledges == {"Beginner", "Intermediate", "Expert"}
RiskLevels == {"Low", "Moderate", "High"}

\* Arguments of investment_advice and inputs of the page (widgets of lines
\* 115-129: income >= 1000 rupees, age 18..100, dependents 0..10, step-up in
\* percent); money in paise.
AdviceProfiles ==
    [income : {100000}, expenses : {0, 99990, 99993}, debt : {0, 7, 10},
     age : {50, 51}, dependents : {3, 4}, occupation : Occupations,
     knowledge : Knowledges, risk_level : RiskLevels]

Profiles ==
    [income : {100000}, expenses : {0, 99993, 100000}, debt : {0, 7},
     age : {50, 51}, dependents : {3}, occupation : {"Job", "Business"},
     knowledge : {"Beginner", "Expert"}, risk_level : RiskLevels,
     step_up : {0, 10}, years : {1, MaxYears},
     goal : {""}, goal_amount : {100000000}, existing_savings : {10000000}]

CatalogProfiles ==
    [income : {100000}, expenses : {25000}, debt : {0}, age : {30}, dependents : {1},
     occupation : {"Job"}, knowledge : {"Expert"}, risk_level : {"High"},
     step_up : {10}, years : {1},
     goal : {"Retirement"}, goal_amount : {100000000}, existing_savings : {10000000}]

PlanFiles == {<<>>, <<<<"Stock", "a", "7">>, <<"Gold", "g", "">>, <<"Stock", "b", "12.5">>>>}

UnusedInputs == {"", "Retirement"} \X {0, 100000000} \X {0, 10000000}

CompoundCalls ==
    [principal : {0, 50000}, rate : {Rat(0, 1), Rat(12, 100)}, years : 1..MaxYears,
     monthly_addition : {0, 100000}, step_up_rate : {Rat(0, 1), Rat(5, 100), Rat(10, 100)}]

IdleCall == [active |-> FALSE]

NoAdvice == [called |-> FALSE]

(***************************************************************************)
(* The script as a state machine                                           *)
(***************************************************************************)
InitScript(srcs, files, ties) ==
    /\ source \in srcs
    /\ csv_rows \in (IF source = "ok" THEN files ELSE {<<>>})
    /\ resources = <<>>
    /\ pc = "start"
    /\ exception = "none"
    /\ errors = <<>>
    /\ query = [category |-> "", top_n |-> 0, calls |-> 0]
    /\ top_items = <<>>
    /\ fp_tie_up \in ties
    /\ plan = NoPlan
    /\ plan2 = NoPlan
    /\ advice = NoAdvice
    /\ cw = IdleCall

\* Line 99: resources = load_resources(csv_path)
LoadResources ==
    /\ pc = "start"
    /\ LET res == load_resources(source, csv_rows)
       IN  /\ resources' = (IF res.exc = "none" THEN res.resources ELSE resources)
           /\ errors' = errors \o res.errors
           /\ exception' = res.exc
           /\ pc' = (IF res.exc = "none" THEN "loaded" ELSE "crashed")
    /\ UNCHANGED <<source, csv_rows, query, top_items, fp_tie_up, plan, plan2, advice, cw>>

\* Line 100: data = pd.read_csv(csv_path)
ReadCsv ==
    /\ pc = "loaded"
    /\ exception' = read_csv(source)
    /\ pc' = (IF read_csv(source) = "none" THEN "ready" ELSE "crashed")
    /\ UNCHANGED <<source, csv_rows, resources, errors, query, top_items, fp_tie_up,
                   plan, plan2, advice, cw>>

\* A call get_top_items(resources, category, top_n) on the loaded catalog.
TopItemsCall(category, top_n) ==
    /\ pc = "ready"
    /\ LET call == get_top_items(resources, category, top_n)
       IN  /\ resources' = call.resources
           /\ top_items' = call.ret
           /\ query' = [category |-> category, top_n |-> top_n, calls |-> 1]
    /\ UNCHANGED <<source, csv_rows, pc, exception, errors, fp_tie_up, plan, plan2, advice, cw>>

\* Lines 131-167: the button is pressed with the page's inputs p.
GeneratePlan(p) ==
    /\ pc = "ready"
    /\ plan = NoPlan
    /\ LET out == PlanHandler(p, resources, fp_tie_up)
       IN  /\ plan' = out.plan
           /\ resources' = out.resources
           /\ errors' = errors \o out.errors
    /\ UNCHANGED <<source, csv_rows, pc, exception, query, top_items, fp_tie_up, plan2, advice, cw>>

\* The button is pressed again after only the goal, the goal amount and the
\* existing savings (lines 127-129) were changed.
GenerateAgain(u) ==
    /\ pc = "ready"
    /\ plan # NoPlan
    /\ plan2 = NoPlan
    /\ LET p   == [plan.request EXCEPT !.goal = u[1], !.goal_amount = u[2],
                                        !.existing_savings = u[3]]
           out == PlanHandler(p, resources, fp_tie_up)
       IN  /\ plan2' = out.plan
           /\ resources' = out.resources
           /\ errors' = errors \o out.errors
    /\ UNCHANGED <<source, csv_rows, pc, exception, query, top_items, fp_tie_up, plan, advice, cw>>

\* One pass of the loop of compound_with_stepup (lines 82-85).
CompoundIterate ==
    /\ cw.active
    /\ ~cw.returned
    /\ cw.c.month < cw.c.months
    /\ cw' = [cw EXCEPT !.c = CompoundBody(@)]
    /\ UNCHANGED <<source, csv_rows, resources, pc, exception, errors, query, top_items,
                   fp_tie_up, plan, plan2, advice>>

\* Line 86: the loop is over and the function returns.
CompoundFinish ==
    /\ cw.active
    /\ ~cw.returned
    /\ cw.c.month >= cw.c.months
    /\ cw' = [cw EXCEPT !.returned = TRUE, !.ret = CompoundReturn(cw.c)]
    /\ UNCHANGED <<source, csv_rows, resources, pc, exception, errors, query, top_items,
                   fp_tie_up, plan, plan2, advice>>

\* investment_advice(...) called with the arguments p.
AdviceCall(p) ==
    /\ ~advice.called
    /\ advice' = [called |-> TRUE, request |-> p,
                  ret |-> investment_advice(p, fp_tie_up).ret,
                  locals |-> investment_advice(p, fp_tie_up).locals]
    /\ UNCHANGED <<source, csv_rows, resources, pc, exception, errors, query, top_items,
                   fp_tie_up, plan, plan2, cw>>

TiesUp == [b \in BucketSet |-> TRUE]

\* The page: the script from its start to two presses of the button, the
\* second after a change of the unused inputs only.
Init == InitScript(Sources, PlanFiles, {TiesDown, TiesUp})

Next ==
    \/ LoadResources
    \/ ReadCsv
    \/ \E p \in Profiles : GeneratePlan(p)
    \/ \E u \in UnusedInputs : GenerateAgain(u)

Spec == Init /\ [][Next]_vars

\* The catalog: every source table, direct queries, a plan among them.
InitCatalog == InitScript(Sources, SeqsUpTo(CatalogRows, MaxRows), {TiesDown})

NextCatalog ==
    \/ LoadResources
    \/ ReadCsv
    \/ \E c \in Categories, n \in 0..MaxN : TopItemsCall(c, n)
    \/ \E p \in CatalogProfiles : GeneratePlan(p)

SpecCatalog == InitCatalog /\ [][NextCatalog]_vars

\* investment_advice as a function of its arguments, under every way the
\* five roundings can fall on a tie.
InitAdvice == InitScript({"ok"}, {<<>>}, [BucketSet -> BOOLEAN])

NextAdvice == \E p \in AdviceProfiles : AdviceCall(p)

SpecAdvice == InitAdvice /\ [][NextAdvice]_vars

\* compound_with_stepup month by month.
InitCompound ==
    /\ source = "ok"
    /\ csv_rows = <<>>
    /\ resources = <<>>
    /\ pc = "start"
    /\ exception = "none"
    /\ errors = <<>>
    /\ query = [category |-> "", top_n |-> 0, calls |-> 0]
    /\ top_items = <<>>
    /\ fp_tie_up = TiesDown
    /\ plan = NoPlan
    /\ plan2 = NoPlan
    /\ advice = NoAdvice
    /\ \E a \in CompoundCalls :
          cw = [active |-> TRUE, call |-> a, returned |-> FALSE, ret |-> None,
                c |-> CompoundEnter(a.principal, a.rate, a.years, a.monthly_addition,
                                    a.step_up_rate)]

NextCompound == CompoundIterate \/ CompoundFinish

SpecCompound == InitCompound /\ [][NextCompound]_vars

(***************************************************************************)
(* Properties                                                              *)
(***************************************************************************)
SavingsOf(p) == p.income - p.expenses - p.debt

AgeFires(p) == p.age > 50 \/ p.dependents > 3
OccupationFires(p) == Lower(p.occupation) \in {"business", "freelancer"}
KnowledgeFires(p) == Lower(p.knowledge) = "beginner"

\* C1: a profile with income - expenses - debt <= 0 gets only the
\* insufficiency error from investment_advice, and the plan handler then
\* shows that error and renders no allocation, no projection and no top-N
\* suggestions; a profile with savings > 0 gets no error.
C1_InsufficientSavings ==
    plan # NoPlan =>
        /\ SavingsOf(plan.request) <= 0 =>
              /\ DOMAIN plan.advice.ret = {"error"}
              /\ plan.rendered = {"error"}
              /\ Len(errors) > 0
              /\ errors[Len(errors)] = plan.advice.ret.error
              /\ plan.chart = <<>>
              /\ plan.projection = <<>>
              /\ plan.total_future_value = <<>>
              /\ plan.suggestions = <<>>
        /\ SavingsOf(plan.request) > 0 =>
              /\ "error" \notin DOMAIN plan.advice.ret
              /\ "error" \notin plan.rendered

C1_Witness ==
    /\ plan # NoPlan
    /\ SavingsOf(plan.request) = 0
    /\ plan.rendered = {"error"}

\* C2: for a profile with positive savings the five amounts returned by
\* investment_advice sum to savings within 0.05, one paisa per bucket.
C2_SumWithinTolerance ==
    (advice.called /\ SavingsOf(advice.request) > 0) =>
        Abs(SumValues(advice.ret) - SavingsOf(advice.request)) <= 1 * Cardinality(BucketSet)

C2_Witness ==
    /\ advice.called
    /\ SavingsOf(advice.request) > 0
    /\ SumValues(advice.ret) > SavingsOf(advice.request) + 1
    /\ AgeFires(advice.request)

\* C3: for a profile with positive savings investment_advice returns exactly
\* the five buckets, each with a non-negative amount, whichever adjustments
\* fire.
C3_FiveNonNegativeBuckets ==
    (advice.called /\ SavingsOf(advice.request) > 0) =>
        /\ DOMAIN advice.ret = {"Stocks", "Mutual Funds", "Gold", "Insurance", "Emergency Fund"}
        /\ \A k \in DOMAIN advice.ret : advice.ret[k] >= 0

C3_Witness ==
    /\ advice.called
    /\ SavingsOf(advice.request) > 0
    /\ Lower(advice.request.risk_level) = "low"
    /\ AgeFires(advice.request)
    /\ OccupationFires(advice.request)
    /\ KnowledgeFires(advice.request)
    /\ advice.locals.adjusted["Stocks"] = 5
    /\ advice.ret["Stocks"] >= 0

AdjustmentOrders ==
    {<<1, 2, 3>>, <<1, 3, 2>>, <<2, 1, 3>>, <<2, 3, 1>>, <<3, 1, 2>>, <<3, 2, 1>>}

ApplyAdjustment(i, ratio, p) ==
    CASE i = 1 -> AgeAdjust(ratio, p)
      [] i = 2 -> OccupationAdjust(ratio, p)
      [] OTHER -> KnowledgeAdjust(ratio, p)

AdjustedInOrder(o, p) ==
    ApplyAdjustment(o[3], ApplyAdjustment(o[2], ApplyAdjustment(o[1], BaseRatio(p.risk_level), p), p), p)

\* C10: each of the three adjustments leaves the sum of the ratios as it
\* was, so the five ratios sum to 1 before normalization, normalization
\* leaves every ratio unchanged, and the adjusted ratios are the same in
\* whichever order the adjustments are applied.
C10_AdjustmentsSumToZero ==
    (advice.called /\ SavingsOf(advice.request) > 0) =>
        LET p    == advice.request
            base == BaseRatio(p.risk_level)
        IN  /\ \A i \in 1..3 :
                  SumValues(ApplyAdjustment(i, base, p)) = SumValues(base)
            /\ advice.locals.total_ratio = 100
            /\ SumValues(advice.locals.adjusted) = 100
            /\ \A k \in BucketSet :
                  advice.locals.ratio[k] = Rat(advice.locals.adjusted[k], 100)
            /\ \A o \in AdjustmentOrders :
                  AdjustedInOrder(o, p) = advice.locals.adjusted

C10_Witness ==
    /\ advice.called
    /\ SavingsOf(advice.request) > 0
    /\ AgeFires(advice.request)
    /\ OccupationFires(advice.request)
    /\ KnowledgeFires(advice.request)
    /\ advice.locals.adjusted # BaseRatio(advice.request.risk_level)
    /\ advice.locals.total_ratio = 100

CagrOrdered(a, b) ==
    /\ IsNone(a.cagr_10y) => IsNone(b.cagr_10y)
    /\ (~IsNone(a.cagr_10y) /\ ~IsNone(b.cagr_10y)) => a.cagr_10y.v >= b.cagr_10y.v

C5_SourceUnavailableContained ==
    (source \in {"missing", "unreadable"} /\ pc # "start") =>
        /\ pc # "crashed"
        /\ exception = "none"
        /\ Len(errors) > 0
        /\ resources = <<>>
        /\ ("suggestions" \in plan.rendered =>
               \A i \in 1..Len(plan.suggestions) : plan.suggestions[i].top_items = <<>>)

\* C6: for a source table that can be opened load_resources raises nothing
\* and returns one record per data row in row order; a row whose CAGR field
\* is empty, absent or unparsable gets a null CAGR.
C6_MalformedRowsDegrade ==
    (source = "ok" /\ pc # "start") =>
        /\ pc # "crashed"
        /\ exception = "none"
        /\ Len(resources) = Len(csv_rows)
        /\ \A i \in 1..Len(resources) :
              /\ resources[i].type = Strip(csv_rows[i][1])
              /\ (Len(csv_rows[i]) < 3 \/ csv_rows[i][3] \in {"", "n/a"}) =>
                     IsNone(resources[i].cagr_10y)

RECURSIVE RatPow(_, _)
RatPow(x, n) == IF n = 0 THEN Rat(1, 1) ELSE RatMul(x, RatPow(x, n - 1))

\* The contribution the claim gives for month m (counted from 1).
Contribution(call, m) ==
    RatMul(Rat(call.monthly_addition, 1),
           RatPow(RatAdd(Rat(1, 1), call.step_up_rate), (m - 1) \div 12))

\* C7: the contribution added in month m is
\* monthly_addition * (1 + step_up_rate)^floor((m - 1) / 12), for every month
\* the loop has run, and the total the function returns is made of the
\* principal and those contributions alone.
C7_StepUpEveryTwelfthMonth ==
    cw.active =>
        /\ Len(cw.c.total) = cw.c.month + 1
        /\ cw.c.total[1] = Rat(cw.call.principal, 1)
        /\ \A m \in 1..cw.c.month : cw.c.total[m + 1] = Contribution(cw.call, m)
        /\ cw.returned =>
              /\ cw.c.month = cw.call.years * 12
              /\ cw.ret.round2_of = cw.c.total

C7_Witness ==
    /\ cw.active
    /\ cw.returned
    /\ cw.call.years = 2
    /\ cw.call.monthly_addition = 100000
    /\ cw.call.step_up_rate = Rat(10, 100)
    /\ cw.c.total[13] = Rat(100000, 1)
    /\ cw.c.total[14] = Rat(110000, 1)
    /\ cw.c.total[25] = Rat(110000, 1)
    /\ cw.c.monthly_investment = Rat(121000, 1)

\* C8: once loaded, the catalog is the list load_resources returned, with
\* the same records in the same order, after every get_top_items call and
\* every plan.
C8_CatalogUnchanged ==
    pc = "ready" => resources = load_resources(source, csv_rows).resources

C8_Witness ==
    /\ pc = "ready"
    /\ plan # NoPlan
    /\ query.calls = 1
    /\ Len(top_items) >= 2
    /\ top_items # Slice(SelectType(resources, Lower(query.category)), query.top_n)
    /\ \E i \in 1..Len(plan.suggestions) : Len(plan.suggestions[i].top_items) >= 2

\* C9: a second plan for inputs that differ from the first in the goal, the
\* goal amount and the existing savings only has the same allocation, the
\* same future value per bucket, each computed from principal 0, and the
\* same total.
C9_ExistingSavingsUnused ==
    plan2 # NoPlan =>
        /\ plan2.rendered = plan.rendered
        /\ plan2.advice.ret = plan.advice.ret
        /\ plan2.chart = plan.chart
        /\ plan2.projection = plan.projection
        /\ plan2.total_future_value = plan.total_future_value
        /\ \A i \in 1..Len(plan2.projection) :
              plan2.projection[i].fv.round2_of[1] = Rat(0, 1)

C9_Witness ==
    /\ plan2 # NoPlan
    /\ plan2.request.existing_savings # plan.request.existing_savings
    /\ plan2.request.goal # plan.request.goal
    /\ plan2.request.goal_amount # plan.request.goal_amount
    /\ "projection" \in plan2.rendered
    /\ Len(plan2.projection) = 5
    /\ plan2.request.years = 2
    /\ plan2.request.step_up = 10

====
